---- MODULE Spec2Model ----
(***************************************************************************)
(* Training load engine of ai_fitness_coach (src/training_load.py):        *)
(* per-workout stress score (TSS), the CTL/ATL/TSB trajectory and the      *)
(* current-load query.                                                     *)
(*                                                                         *)
(* Python floats are modelled as exact rationals: a value is a signed      *)
(* arbitrary-precision numerator over a denominator that is a product of   *)
(* powers of the primes in Primes.  IEEE-754 rounding is not modelled, so  *)
(* x * (1.0 / 42) and x / 42 denote the same number here.                  *)
(***************************************************************************)
EXTENDS Integers, Sequences, FiniteSets, TLC

----------------------------------------------------------------------------
(* Arbitrary-precision naturals: little-endian sequences of limbs in       *)
(* 0 .. Base-1 with no most-significant zero limb; <<>> is zero.           *)

Base == 10000

RECURSIVE NatTrim(_)
NatTrim(a) ==
  IF a = <<>> THEN <<>>
  ELSE IF a[Len(a)] = 0 THEN NatTrim(SubSeq(a, 1, Len(a) - 1)) ELSE a

RECURSIVE NatOfInt(_)
NatOfInt(n) ==
  IF n = 0 THEN <<>> ELSE <<n % Base>> \o NatOfInt(n \div Base)

RECURSIVE NatAddC(_, _, _)
NatAddC(a, b, c) ==
  IF a = <<>> /\ b = <<>> THEN NatOfInt(c)
  ELSE LET x == IF a = <<>> THEN 0 ELSE Head(a)
           y == IF b = <<>> THEN 0 ELSE Head(b)
           s == x + y + c
       IN <<s % Base>> \o NatAddC(IF a = <<>> THEN <<>> ELSE Tail(a),
                                  IF b = <<>> THEN <<>> ELSE Tail(b),
                                  s \div Base)

NatAdd(a, b) == NatAddC(a, b, 0)

\* a - b for a >= b, before trimming
RECURSIVE NatSubB(_, _, _)
NatSubB(a, b, borrow) ==
  IF a = <<>> THEN <<>>
  ELSE LET y == IF b = <<>> THEN 0 ELSE Head(b)
           d == Head(a) - y - borrow
       IN <<IF d < 0 THEN d + Base ELSE d>>
            \o NatSubB(Tail(a), IF b = <<>> THEN <<>> ELSE Tail(b),
                       IF d < 0 THEN 1 ELSE 0)

NatSub(a, b) == NatTrim(NatSubB(a, b, 0))

\* -1, 0 or 1 as a < b, a = b or a > b
RECURSIVE NatCmpTop(_, _, _)
NatCmpTop(a, b, i) ==
  IF i = 0 THEN 0
  ELSE IF a[i] < b[i] THEN -1
  ELSE IF a[i] > b[i] THEN 1
  ELSE NatCmpTop(a, b, i - 1)

NatCmp(a, b) ==
  IF Len(a) < Len(b) THEN -1
  ELSE IF Len(a) > Len(b) THEN 1
  ELSE NatCmpTop(a, b, Len(a))

\* a * m + c for a machine integer 0 <= m <= Base
RECURSIVE NatMulSmallC(_, _, _)
NatMulSmallC(a, m, c) ==
  IF a = <<>> THEN NatOfInt(c)
  ELSE LET p == Head(a) * m + c
       IN <<p % Base>> \o NatMulSmallC(Tail(a), m, p \div Base)

NatMulSmall(a, m) == IF m = 0 THEN <<>> ELSE NatMulSmallC(a, m, 0)

NatShift(a) == IF a = <<>> THEN <<>> ELSE <<0>> \o a

RECURSIVE NatMul(_, _)
NatMul(a, b) ==
  IF b = <<>> THEN <<>>
  ELSE NatAdd(NatMulSmall(a, Head(b)), NatShift(NatMul(a, Tail(b))))

\* quotient (untrimmed) and remainder of a by a machine integer 0 < m <= Base
RECURSIVE NatDivModSmall(_, _)
NatDivModSmall(a, m) ==
  IF a = <<>> THEN [q |-> <<>>, r |-> 0]
  ELSE LET hi  == NatDivModSmall(Tail(a), m)
           cur == hi.r * Base + Head(a)
       IN [q |-> <<cur \div m>> \o hi.q, r |-> cur % m]

NatDivSmall(a, m) == NatTrim(NatDivModSmall(a, m).q)
NatModSmall(a, m) == NatDivModSmall(a, m).r

RECURSIVE NatMulPow(_, _, _)
NatMulPow(a, p, k) ==
  IF k = 0 THEN a ELSE NatMulPow(NatMulSmall(a, p), p, k - 1)

----------------------------------------------------------------------------
(* Signed integers: [neg, mag]; zero is [neg |-> FALSE, mag |-> <<>>].      *)

ZMake(neg, mag) == [neg |-> (neg /\ mag # <<>>), mag |-> mag]
ZOfInt(n) == IF n < 0 THEN ZMake(TRUE, NatOfInt(0 - n)) ELSE ZMake(FALSE, NatOfInt(n))
ZNeg(a) == ZMake(~a.neg, a.mag)
ZAdd(a, b) ==
  IF a.neg = b.neg THEN ZMake(a.neg, NatAdd(a.mag, b.mag))
  ELSE IF NatCmp(a.mag, b.mag) >= 0 THEN ZMake(a.neg, NatSub(a.mag, b.mag))
  ELSE ZMake(b.neg, NatSub(b.mag, a.mag))
ZMul(a, b) == ZMake(a.neg # b.neg, NatMul(a.mag, b.mag))

----------------------------------------------------------------------------
(* Rationals: [num, den] with num a signed integer and den[i] the exponent *)
(* of Primes[i] in the denominator, in lowest terms.                        *)

Primes == <<2, 3, 5, 7, 97>>
PIdx == 1 .. Len(Primes)
\* the tuple <<f[1], ..., f[n]>>
RECURSIVE TupleOf(_, _)
TupleOf(f, n) == IF n = 0 THEN <<>> ELSE Append(TupleOf(f, n - 1), f[n])
NoDen == TupleOf([i \in PIdx |-> 0], Len(Primes))

RECURSIVE NatScale(_, _, _)
\* a multiplied by the product of Primes[j]^e[j] for j in 1..i
NatScale(a, e, i) ==
  IF i = 0 THEN a ELSE NatScale(NatMulPow(a, Primes[i], e[i]), e, i - 1)

RECURSIVE RatReduce(_, _, _)
\* cancel the common factors Primes[1..i] of numerator magnitude and denominator
RatReduce(mag, den, i) ==
  IF i = 0 THEN [mag |-> mag, den |-> den]
  ELSE IF den[i] > 0 /\ NatModSmall(mag, Primes[i]) = 0
       THEN RatReduce(NatDivSmall(mag, Primes[i]), [den EXCEPT ![i] = @ - 1], i)
       ELSE RatReduce(mag, den, i - 1)

RatMake(num, den) ==
  IF num.mag = <<>> THEN [num |-> num, den |-> NoDen]
  ELSE LET r == RatReduce(num.mag, den, Len(Primes))
       IN [num |-> ZMake(num.neg, r.mag), den |-> r.den]

RatOfInt(n) == RatMake(ZOfInt(n), NoDen)
RatZero == RatOfInt(0)

DenMax(d, e) == TupleOf([i \in PIdx |-> IF d[i] >= e[i] THEN d[i] ELSE e[i]], Len(Primes))
DenDiff(d, e) == TupleOf([i \in PIdx |-> d[i] - e[i]], Len(Primes))
DenSum(d, e) == TupleOf([i \in PIdx |-> d[i] + e[i]], Len(Primes))

\* numerator of a over the larger denominator m
ZLift(a, m) == ZMake(a.num.neg, NatScale(a.num.mag, DenDiff(m, a.den), Len(Primes)))

RatAdd(a, b) ==
  LET m == DenMax(a.den, b.den)
  IN RatMake(ZAdd(ZLift(a, m), ZLift(b, m)), m)
RatNeg(a) == [num |-> ZNeg(a.num), den |-> a.den]
RatSub(a, b) == RatAdd(a, RatNeg(b))
RatMul(a, b) == RatMake(ZMul(a.num, b.num), DenSum(a.den, b.den))

RECURSIVE Factor(_, _, _)
\* exponents of Primes[1..i] in mag, with the cofactor left over
Factor(mag, e, i) ==
  IF i = 0 THEN [rest |-> mag, exp |-> e]
  ELSE IF mag # <<>> /\ NatModSmall(mag, Primes[i]) = 0
       THEN Factor(NatDivSmall(mag, Primes[i]), [e EXCEPT ![i] = @ + 1], i)
       ELSE Factor(mag, e, i - 1)

\* b is a divisor this representation covers: nonzero, numerator a product of Primes
Invertible(b) == b.num.mag # <<>> /\ Factor(b.num.mag, NoDen, Len(Primes)).rest = <<1>>

\* a / b for Invertible(b)
RatDiv(a, b) ==
  LET f == Factor(b.num.mag, NoDen, Len(Primes))
  IN RatMake(ZMake(a.num.neg # b.num.neg, NatScale(a.num.mag, b.den, Len(Primes))),
             DenSum(a.den, f.exp))

RatSign(a) == IF a.num.mag = <<>> THEN 0 ELSE IF a.num.neg THEN -1 ELSE 1
RatLt(a, b) == RatSign(RatSub(a, b)) < 0
RatLe(a, b) == RatSign(RatSub(a, b)) <= 0
RatMax(a, b) == IF RatLt(a, b) THEN b ELSE a
\* the rational n / d for machine integers n and d with d a product of Primes
Frac(n, d) == RatDiv(RatOfInt(n), RatOfInt(d))

----------------------------------------------------------------------------
(* Python values.                                                          *)

\* Optional[T]: None is the empty tuple, a present value v is <<v>>
None == <<>>
Some(v) == <<v>>

\* truth value of an Optional[float]: None and 0.0 are falsy
Truthy(o) == o # None /\ o[1] # RatZero

\* Python's  a or b
PyOr(a, b) == IF Truthy(a) THEN a ELSE b

\* datetime values are counted in slots of a day; datetime.date() drops the slot
SlotsPerDay == 2
DateOf(dt) == dt \div SlotsPerDay

TrainingLoad(d, tss, c, a, b) == [date |-> d, tss |-> tss, ctl |-> c, atl |-> a, tsb |-> b]

----------------------------------------------------------------------------
(* Stress scoring.                                                         *)

Hours(duration_seconds) == RatDiv(duration_seconds, RatOfInt(3600))

\* variant: the intensity factor is doubled instead of squared
calculate_tss_DoubledIF(duration_seconds, average_speed_mps, threshold_pace_arg, self_threshold) ==
  LET threshold == PyOr(threshold_pace_arg, self_threshold)
  IN IF ~Truthy(threshold) \/ RatLe(threshold[1], RatZero)
     THEN RatMul(Hours(duration_seconds), RatOfInt(50))
     ELSE LET intensity_factor == RatDiv(average_speed_mps, threshold[1])
              duration_hours   == Hours(duration_seconds)
              tss == RatMul(RatMul(duration_hours,
                                   RatMul(intensity_factor, RatOfInt(2))),
                            RatOfInt(100))
          IN RatMax(RatZero, tss)

calculate_tss(duration_seconds, average_speed_mps, threshold_pace_arg, self_threshold) ==
  LET threshold == PyOr(threshold_pace_arg, self_threshold)
  IN IF ~Truthy(threshold) \/ RatLe(threshold[1], RatZero)
     THEN RatMul(Hours(duration_seconds), RatOfInt(50))
     ELSE LET intensity_factor == RatDiv(average_speed_mps, threshold[1])
              duration_hours   == Hours(duration_seconds)
              tss == RatMul(RatMul(duration_hours,
                                   RatMul(intensity_factor, intensity_factor)),
                            RatOfInt(100))
          IN RatMax(RatZero, tss)

\* variant: the elevation penalty is taken off the distance
calculate_tss_with_elevation_Minus(duration_seconds, distance_meters, elevation_gain_meters, threshold_pace_arg, self_threshold) ==
  LET elevation_penalty    == RatMul(elevation_gain_meters, RatOfInt(10))
      normalized_distance  == RatSub(distance_meters, elevation_penalty)
      normalized_speed_mps == IF RatLt(RatZero, duration_seconds)
                              THEN RatDiv(normalized_distance, duration_seconds)
                              ELSE RatZero
  IN calculate_tss(duration_seconds, normalized_speed_mps, threshold_pace_arg,
                   self_threshold)

calculate_tss_with_elevation(duration_seconds, distance_meters, elevation_gain_meters, threshold_pace_arg, self_threshold) ==
  LET elevation_penalty    == RatMul(elevation_gain_meters, RatOfInt(10))
      normalized_distance  == RatAdd(distance_meters, elevation_penalty)
      normalized_speed_mps == IF RatLt(RatZero, duration_seconds)
                              THEN RatDiv(normalized_distance, duration_seconds)
                              ELSE RatZero
  IN calculate_tss(duration_seconds, normalized_speed_mps, threshold_pace_arg,
                   self_threshold)

\* variant: no check of the threshold, intensity factor not squared, no floor
calculate_hrss_Unguarded(duration_seconds, average_heartrate, threshold_hr) ==
  RatMul(RatMul(Hours(duration_seconds), RatDiv(average_heartrate, threshold_hr)),
         RatOfInt(100))

calculate_hrss(duration_seconds, average_heartrate, threshold_hr) ==
  IF RatLe(threshold_hr, RatZero)
  THEN RatMul(Hours(duration_seconds), RatOfInt(50))
  ELSE LET hr_intensity_factor == RatDiv(average_heartrate, threshold_hr)
           duration_hours      == Hours(duration_seconds)
           hrss == RatMul(RatMul(duration_hours,
                                 RatMul(hr_intensity_factor, hr_intensity_factor)),
                          RatOfInt(100))
       IN RatMax(RatZero, hrss)

\* variant: ten points per kilometre
duration_estimate_ByDistance(metrics) ==
  RatMul(RatDiv(metrics.distance, RatOfInt(1000)), RatOfInt(10))

\* line 193: (metrics.moving_time / 3600.0) * 50.0
duration_estimate(metrics) == RatMul(Hours(metrics.moving_time), RatOfInt(50))

calculate_workout_tss(w, threshold_pace_arg, threshold_hr_arg, self_threshold) ==
  LET metrics        == w.metrics
      threshold_pace == PyOr(threshold_pace_arg, self_threshold)
  IN IF Truthy(threshold_pace) /\ Truthy(metrics.average_speed)
        /\ metrics.total_elevation_gain # None
     THEN calculate_tss_with_elevation(metrics.moving_time, metrics.distance,
                                       metrics.total_elevation_gain[1],
                                       threshold_pace, self_threshold)
     ELSE IF Truthy(threshold_pace) /\ Truthy(metrics.average_speed)
     THEN calculate_tss(metrics.moving_time, metrics.average_speed[1],
                        threshold_pace, self_threshold)
     ELSE IF Truthy(threshold_hr_arg) /\ Truthy(metrics.average_heartrate)
     THEN calculate_hrss(metrics.moving_time, metrics.average_heartrate[1],
                         threshold_hr_arg[1])
     ELSE duration_estimate(metrics)

----------------------------------------------------------------------------
(* estimate_threshold_pace                                                 *)

\* lines 278-280: the filter of the list comprehension
IsTempoWorkout(w) ==
  /\ w.run_type \in {"tempo", "race", "intervals"}
  /\ Truthy(w.metrics.average_speed)
  /\ RatLe(RatOfInt(1200), w.metrics.moving_time)

\* lines 276-281: tempo_workouts
TempoWorkouts(recent_workouts) == SelectSeq(recent_workouts, IsTempoWorkout)

\* line 287: max(w.metrics.average_speed for w in tempo_workouts)
RECURSIVE MaxPace(_)
MaxPace(tempo_workouts) ==
  IF Len(tempo_workouts) = 1 THEN tempo_workouts[1].metrics.average_speed[1]
  ELSE RatMax(MaxPace(SubSeq(tempo_workouts, 1, Len(tempo_workouts) - 1)),
              tempo_workouts[Len(tempo_workouts)].metrics.average_speed[1])

\* lines 283-293
estimate_threshold_pace(recent_workouts) ==
  LET tempo_workouts == TempoWorkouts(recent_workouts)
  IN IF tempo_workouts = <<>> THEN None
     ELSE Some(RatMul(MaxPace(tempo_workouts), Frac(97, 100)))

----------------------------------------------------------------------------
(* WorkoutMetrics(distance=, moving_time=, elapsed_time=, average_speed=)  *)

\* variant: the constraint is ge
gt_OrEqual(v, bound) == RatLe(RatOfInt(bound), v)

\* Field(gt=bound)
gt(v, bound) == RatLt(RatOfInt(bound), v)

\* the fields validated before average_speed that passed their constraint
ValidatedData(kw) ==
  LET ok == {f \in {"distance", "moving_time", "elapsed_time"} : gt(kw[f], 0)}
  IN [f \in ok |-> kw[f]]

\* the 'before' validator of average_speed; data holds the validated fields
calculate_speed_if_missing(v, data) ==
  IF v = None /\ "distance" \in DOMAIN data /\ "moving_time" \in DOMAIN data
  THEN IF RatLt(RatZero, data["moving_time"])
       THEN Some(RatDiv(data["distance"], data["moving_time"]))
       ELSE v
  ELSE v

\* the record, or None when validation fails (ValidationError)
WorkoutMetrics(kw) ==
  LET data  == ValidatedData(kw)
      speed == calculate_speed_if_missing(kw.average_speed, data)
  IN IF DOMAIN data = {"distance", "moving_time", "elapsed_time"}
     THEN Some([distance |-> kw.distance, moving_time |-> kw.moving_time,
                elapsed_time |-> kw.elapsed_time, total_elevation_gain |-> None,
                average_speed |-> speed, average_heartrate |-> None])
     ELSE None

----------------------------------------------------------------------------
(* interpret_tsb                                                           *)

LosingFitness == "Highly rested - may be losing fitness"
RaceReadiness == "Well rested - optimal race readiness"
GoodForRacing == "Rested - good for racing"
ProductiveZone == "Fresh - productive training zone"
BuildingFitness == "Optimal training - building fitness"
MonitorOvertraining == "Heavy training - monitor for overtraining"
RiskOvertraining == "Very fatigued - risk of overtraining"

\* tsb > n
Above(tsb_value, n) == RatLt(RatOfInt(n), tsb_value)

\* variant: the comparisons are tsb >= n
interpret_tsb_Inclusive(tsb_value) ==
  IF RatLe(RatOfInt(25), tsb_value) THEN LosingFitness
  ELSE IF RatLe(RatOfInt(15), tsb_value) THEN RaceReadiness
  ELSE IF RatLe(RatOfInt(5), tsb_value) THEN GoodForRacing
  ELSE IF RatLe(RatOfInt(-10), tsb_value) THEN ProductiveZone
  ELSE IF RatLe(RatOfInt(-30), tsb_value) THEN BuildingFitness
  ELSE IF RatLe(RatOfInt(-50), tsb_value) THEN MonitorOvertraining
  ELSE RiskOvertraining

\* variant: the branch tsb > 15 is missing
interpret_tsb_NoRaceReadiness(tsb_value) ==
  IF Above(tsb_value, 25) THEN LosingFitness
  ELSE IF Above(tsb_value, 5) THEN GoodForRacing
  ELSE IF Above(tsb_value, -10) THEN ProductiveZone
  ELSE IF Above(tsb_value, -30) THEN BuildingFitness
  ELSE IF Above(tsb_value, -50) THEN MonitorOvertraining
  ELSE RiskOvertraining

interpret_tsb(tsb_value) ==
  IF Above(tsb_value, 25) THEN LosingFitness
  ELSE IF Above(tsb_value, 15) THEN RaceReadiness
  ELSE IF Above(tsb_value, 5) THEN GoodForRacing
  ELSE IF Above(tsb_value, -10) THEN ProductiveZone
  ELSE IF Above(tsb_value, -30) THEN BuildingFitness
  ELSE IF Above(tsb_value, -50) THEN MonitorOvertraining
  ELSE RiskOvertraining

----------------------------------------------------------------------------
(* Pieces of calculate_ctl_atl_tsb.                                        *)

CTL_TIME_CONSTANT == 42
ATL_TIME_CONSTANT == 7

\* variant: an entry goes before the entries of its own date (ties reversed)
RECURSIVE InsertByDate_TiesFirst(_, _)
InsertByDate_TiesFirst(srt, e) ==
  IF srt = <<>> THEN <<e>>
  ELSE IF srt[Len(srt)][1] < e[1] THEN Append(srt, e)
  ELSE Append(InsertByDate_TiesFirst(SubSeq(srt, 1, Len(srt) - 1), e), srt[Len(srt)])

\* sorted(tss_history, key=lambda x: x[0]): stable, so entries of one date
\* keep their input order
RECURSIVE InsertByDate(_, _)
InsertByDate(srt, e) ==
  IF srt = <<>> THEN <<e>>
  ELSE IF srt[Len(srt)][1] <= e[1] THEN Append(srt, e)
  ELSE Append(InsertByDate(SubSeq(srt, 1, Len(srt) - 1), e), srt[Len(srt)])

\* variant: the list is used in the caller's order
SortedByDate_Unsorted(h) == h

RECURSIVE SortedByDate(_)
SortedByDate(h) ==
  IF h = <<>> THEN <<>>
  ELSE InsertByDate(SortedByDate(SubSeq(h, 1, Len(h) - 1)), h[Len(h)])

\* {d: tss for d, tss in tss_history}: a later entry replaces an earlier one
RECURSIVE DictOf(_)
DictOf(h) ==
  IF h = <<>> THEN <<>>
  ELSE (h[Len(h)][1] :> h[Len(h)][2]) @@ DictOf(SubSeq(h, 1, Len(h) - 1))

\* variant: a day without entry takes the score of the nearest earlier entry
DictGet_CarryForward(d, k) ==
  IF k \in DOMAIN d THEN d[k]
  ELSE LET earlier == {j \in DOMAIN d : j < k}
       IN IF earlier = {} THEN RatZero
          ELSE d[CHOOSE j \in earlier : \A j2 \in earlier : j2 <= j]

\* tss_dict.get(current_date, 0.0)
DictGet(d, k) == IF k \in DOMAIN d THEN d[k] ELSE RatZero

\* variant: smoothing factor 2 / (time_constant + 1) of a span-based moving average
EwmaStep_Span(x, tss, time_constant) ==
  RatAdd(x, RatMul(RatSub(tss, x),
                   RatDiv(RatOfInt(2), RatOfInt(time_constant + 1))))

\* variant: a day without stress leaves the average as it is
EwmaStep_SkipRest(x, tss, time_constant) ==
  IF tss = RatZero THEN x
  ELSE RatAdd(x, RatMul(RatSub(tss, x), RatDiv(RatOfInt(1), RatOfInt(time_constant))))

\* variant: the average moves away from the day's score
EwmaStep_Away(x, tss, time_constant) ==
  RatSub(x, RatMul(RatSub(tss, x), RatDiv(RatOfInt(1), RatOfInt(time_constant))))

\* x + (tss - x) * (1.0 / time_constant)
EwmaStep(x, tss, time_constant) ==
  RatAdd(x, RatMul(RatSub(tss, x), RatDiv(RatOfInt(1), RatOfInt(time_constant))))

\* variant: the last day is left out
LoopCond_Strict(cur, end) == cur < end

\* while current_date <= end_date
LoopCond(cur, end) == cur <= end

\* variant: a record carries the averages as they were before the day's update
RECURSIVE WalkDays_RecordBefore(_, _, _, _, _, _)
WalkDays_RecordBefore(d, cur, end, c, a, acc) ==
  IF LoopCond(cur, end)
  THEN LET tss == DictGet(d, cur)
           c1  == EwmaStep(c, tss, CTL_TIME_CONSTANT)
           a1  == EwmaStep(a, tss, ATL_TIME_CONSTANT)
       IN WalkDays_RecordBefore(d, cur + 1, end, c1, a1,
                                Append(acc, TrainingLoad(cur, tss, c, a, RatSub(c, a))))
  ELSE acc

\* lines 236-259: the while loop from current_date = cur with ctl = c, atl = a
\* and results = acc, to the returned list
RECURSIVE WalkDays(_, _, _, _, _, _)
WalkDays(d, cur, end, c, a, acc) ==
  IF LoopCond(cur, end)
  THEN LET tss == DictGet(d, cur)
           c1  == EwmaStep(c, tss, CTL_TIME_CONSTANT)
           a1  == EwmaStep(a, tss, ATL_TIME_CONSTANT)
       IN WalkDays(d, cur + 1, end, c1, a1,
                   Append(acc, TrainingLoad(cur, tss, c1, a1, RatSub(c1, a1))))
  ELSE acc

\* variant: the seeds are ignored, the averages start at 0
calculate_ctl_atl_tsb_ZeroSeeds(history, seed_ctl, seed_atl) ==
  IF history = <<>> THEN <<>>
  ELSE LET srt == SortedByDate(history)
       IN WalkDays(DictOf(srt), srt[1][1], srt[Len(srt)][1], RatZero, RatZero, <<>>)

\* the call as a whole: the list calculate_ctl_atl_tsb(history, seed_ctl, seed_atl) returns
calculate_ctl_atl_tsb(history, seed_ctl, seed_atl) ==
  IF history = <<>> THEN <<>>
  ELSE LET srt == SortedByDate(history)
       IN WalkDays(DictOf(srt), srt[1][1], srt[Len(srt)][1], seed_ctl, seed_atl, <<>>)

\* lines 315-323 as a whole: the (date, score) list built from a workout list
RECURSIVE ScoredHistory(_, _, _, _)
ScoredHistory(ws, pace, hr, self_threshold) ==
  IF ws = <<>> THEN <<>>
  ELSE Append(ScoredHistory(SubSeq(ws, 1, Len(ws) - 1), pace, hr, self_threshold),
              <<DateOf(ws[Len(ws)].date),
                calculate_workout_tss(ws[Len(ws)], pace, hr, self_threshold)>>)

\* the call as a whole: what get_current_training_load(ws, pace, hr) returns
get_current_training_load(ws, pace, hr, self_threshold) ==
  IF ws = <<>> THEN None
  ELSE LET load_history ==
             calculate_ctl_atl_tsb(ScoredHistory(ws, pace, hr, self_threshold),
                                   RatZero, RatZero)
       IN IF load_history # <<>> THEN Some(load_history[Len(load_history)]) ELSE None

----------------------------------------------------------------------------
(* State: the arguments, locals and results of one caller's use of a       *)
(* TrainingLoadCalculator.                                                 *)

VARIABLES
  mode,                     \* entry point the caller uses: "ctl", "gc", "tss", "est", "int", "new"
  pc,                       \* position in the code
  calls,                    \* number of calculate_ctl_atl_tsb calls started
  self_threshold_pace_mps,  \* self.threshold_pace_mps
  workouts,                 \* get_current_training_load: workouts
  threshold_pace_mps,       \* argument threshold_pace_mps
  threshold_heartrate,      \* argument threshold_heartrate
  workout,                  \* loop variable / argument of calculate_workout_tss
  idx,                      \* position of the for loop in workouts
  score,                    \* value returned by calculate_workout_tss
  estimated_ftp,            \* value returned by estimate_threshold_pace
  ret,                      \* value returned by get_current_training_load
  tss_history,              \* the caller's list handed to calculate_ctl_atl_tsb
  initial_ctl, initial_atl, \* seeds
  sorted_history,           \* local tss_history after line 221
  start_date, end_date, tss_dict, current_date, ctl, atl,
  results,                  \* local results; the returned list at "ctl_ret"
  first_results,            \* the list the caller got from its first call
  tsb_arg,                  \* argument tsb of interpret_tsb
  interpretation,           \* value returned by interpret_tsb
  kwargs,                   \* keyword arguments of WorkoutMetrics(...)
  metrics_new,              \* the record WorkoutMetrics(...) built, if any
  callers                   \* concurrent callers of one calculator: their arguments and locals

vars == <<mode, pc, calls, self_threshold_pace_mps, workouts, threshold_pace_mps,
          threshold_heartrate, workout, idx, score, estimated_ftp, ret, tss_history, initial_ctl,
          initial_atl, sorted_history, start_date, end_date, tss_dict,
          current_date, ctl, atl, results, first_results, tsb_arg, interpretation,
          kwargs, metrics_new, callers>>

\* the variables of the other entry points
intVars == <<tsb_arg, interpretation>>
newVars == <<kwargs, metrics_new>>
otherEntries == <<intVars, newVars, callers>>

ctlLocals == <<sorted_history, start_date, end_date, tss_dict, current_date, ctl,
               atl, results>>
gcArgs == <<workouts, threshold_pace_mps, threshold_heartrate>>

----------------------------------------------------------------------------
(* Inputs.                                                                 *)

MaxLen == 2          \* longest tss_history drawn from Entries
MaxDate == 2         \* dates of drawn entries are days 0 .. MaxDate
MaxWorkouts == 2     \* longest workout list drawn
GcMaxDay == 1        \* workouts of drawn lists fall on days 0 .. GcMaxDay

ScoreValues == {0, 50, 80}
Entries == {<<d, RatOfInt(s)>> : d \in 0 .. MaxDate, s \in ScoreValues}

\* the history day 0: 50, day 1: 0, day 5: 80
Scenario == <<<<0, RatOfInt(50)>>, <<1, RatOfInt(0)>>, <<5, RatOfInt(80)>>>>
\* a repeated date with two scores, a day without entry and a later date
Repeated == <<<<2, RatOfInt(0)>>, <<0, RatOfInt(80)>>, <<0, RatOfInt(50)>>>>
\* three entries of one date
SameDay == <<<<1, RatOfInt(50)>>, <<1, RatOfInt(80)>>, <<1, RatOfInt(0)>>>>

RemoveAt(h, i) == SubSeq(h, 1, i - 1) \o SubSeq(h, i + 1, Len(h))
RECURSIVE Orderings(_)
\* the lists with the entries of h in any order
Orderings(h) ==
  IF Len(h) <= 1 THEN {h}
  ELSE UNION {{<<h[i]>> \o p : p \in Orderings(RemoveAt(h, i))} : i \in 1 .. Len(h)}

Histories == UNION {[1 .. n -> Entries] : n \in 0 .. MaxLen}
               \cup Orderings(Scenario) \cup Orderings(Repeated) \cup Orderings(SameDay)

SeedPairs == {<<RatOfInt(0), RatOfInt(0)>>, <<RatOfInt(30), RatOfInt(40)>>}

Metrics(dist, mt, gain, speed, hr) ==
  [distance |-> dist, moving_time |-> mt, total_elevation_gain |-> gain,
   average_speed |-> speed, average_heartrate |-> hr]

Workout(dt, rt, m) == [date |-> dt, run_type |-> rt, metrics |-> m]

Opt(S) == {None} \cup {Some(RatOfInt(x)) : x \in S}

\* metrics WorkoutMetrics accepts: distance, moving_time > 0, the others absent or >= 0
TssMetrics ==
  {Metrics(RatOfInt(dist), RatOfInt(mt), g, v, h) :
     dist \in {5000, 9000}, mt \in {1200, 3600}, g \in Opt({0, 90}),
     v \in Opt({0, 3}) \cup {Some(Frac(5, 2))}, h \in Opt({0, 150, 170})}

\* workouts estimate_threshold_pace is called on
EstMetrics ==
  {Metrics(RatOfInt(9000), RatOfInt(mt), None, v, None) :
     mt \in {1199, 1200}, v \in Opt({0, 3, 4})}
EstWorkouts ==
  {Workout(0, rt, m) : rt \in {"tempo", "race", "intervals", "easy"}, m \in EstMetrics}

\* one 25-minute tempo run at 3.0 m/s
TempoExample ==
  <<Workout(0, "tempo", Metrics(RatOfInt(4500), RatOfInt(1500), None, Some(RatOfInt(3)), None))>>

EstWorkoutLists ==
  UNION {[1 .. n -> EstWorkouts] : n \in 0 .. MaxWorkouts} \cup {TempoExample}

GcMetrics ==
  {Metrics(RatOfInt(9000), RatOfInt(3600), Some(RatOfInt(90)), Some(Frac(5, 2)), None),
   Metrics(RatOfInt(9000), RatOfInt(1200), None, None, Some(RatOfInt(150)))}

\* (threshold_pace_mps, threshold_heartrate) of the drawn calls
ThresholdPairs ==
  {<<None, None>>, <<None, Some(RatOfInt(160))>>, <<Some(RatOfInt(3)), Some(RatOfInt(160))>>}

GcWorkouts ==
  {Workout(dt, "easy", m) : dt \in 0 .. (GcMaxDay + 1) * SlotsPerDay - 1, m \in GcMetrics}

WorkoutLists == UNION {[1 .. n -> GcWorkouts] : n \in 0 .. MaxWorkouts}

NoWorkout == Workout(0, "rest", Metrics(RatOfInt(1), RatOfInt(1), None, None, None))

\* the six thresholds of interpret_tsb
TsbThresholds == {25, 15, 5, -10, -30, -50}
\* each threshold, the values half a point below and above it, and two far values
TsbValues ==
  {Frac(2 * b + k, 2) : b \in TsbThresholds, k \in {-1, 0, 1}}
    \cup {RatOfInt(1000), RatOfInt(-1000)}

\* keyword arguments drawn for WorkoutMetrics: negative, zero and positive values
KwargsValues ==
  {[distance |-> RatOfInt(dist), moving_time |-> RatOfInt(mt),
    elapsed_time |-> RatOfInt(et), average_speed |-> v] :
     dist \in {-9000, 0, 9000}, mt \in {-1200, 0, 1200}, et \in {-1500, 0, 1500},
     v \in Opt({3})}
NoKwargs ==
  [distance |-> RatOfInt(1), moving_time |-> RatOfInt(1), elapsed_time |-> RatOfInt(1),
   average_speed |-> None]

InitCommon ==
  /\ calls = 0 /\ idx = 0
  /\ interpretation = ""
  /\ metrics_new = None
  /\ score = None /\ ret = None /\ estimated_ftp = None
  /\ sorted_history = <<>> /\ tss_dict = <<>>
  /\ start_date = 0 /\ end_date = 0 /\ current_date = 0
  /\ ctl = RatZero /\ atl = RatZero
  /\ results = <<>> /\ first_results = <<>>

\* a caller about to call calculate_ctl_atl_tsb(tss_history, initial_ctl, initial_atl)
InitCtl ==
  /\ tsb_arg = RatZero /\ kwargs = NoKwargs
  /\ mode = "ctl" /\ pc = "ctl_call"
  /\ tss_history \in Histories
  /\ \E sp \in SeedPairs : initial_ctl = sp[1] /\ initial_atl = sp[2]
  /\ self_threshold_pace_mps = None
  /\ workouts = <<>> /\ workout = NoWorkout
  /\ threshold_pace_mps = None /\ threshold_heartrate = None

\* a caller about to call get_current_training_load(workouts, pace, hr)
InitGc ==
  /\ tsb_arg = RatZero /\ kwargs = NoKwargs
  /\ mode = "gc" /\ pc = "gc_call"
  /\ workouts \in WorkoutLists
  /\ \E tp \in ThresholdPairs : threshold_pace_mps = tp[1] /\ threshold_heartrate = tp[2]
  /\ self_threshold_pace_mps = None
  /\ workout = NoWorkout
  /\ tss_history = <<>> /\ initial_ctl = RatZero /\ initial_atl = RatZero

\* a caller about to call calculate_workout_tss(workout, pace, hr)
InitTss ==
  /\ tsb_arg = RatZero /\ kwargs = NoKwargs
  /\ mode = "tss" /\ pc = "tss_call"
  /\ workout \in {Workout(0, rt, m) : rt \in {"easy", "race"}, m \in TssMetrics}
  /\ threshold_pace_mps \in Opt({0, -3, 3}) \cup {Some(Frac(5, 2))}
  /\ threshold_heartrate \in Opt({0, -160, 160})
  /\ self_threshold_pace_mps \in Opt({3})
  /\ workouts = <<>>
  /\ tss_history = <<>> /\ initial_ctl = RatZero /\ initial_atl = RatZero

\* a caller about to call estimate_threshold_pace(workouts)
InitEst ==
  /\ tsb_arg = RatZero /\ kwargs = NoKwargs
  /\ mode = "est" /\ pc = "est_call"
  /\ workouts \in EstWorkoutLists
  /\ threshold_pace_mps = None /\ threshold_heartrate = None
  /\ self_threshold_pace_mps = None
  /\ workout = NoWorkout
  /\ tss_history = <<>> /\ initial_ctl = RatZero /\ initial_atl = RatZero

\* a caller about to call interpret_tsb(tsb)
InitInt ==
  /\ mode = "int" /\ pc = "int_call"
  /\ tsb_arg \in TsbValues /\ kwargs = NoKwargs
  /\ workouts = <<>> /\ workout = NoWorkout
  /\ threshold_pace_mps = None /\ threshold_heartrate = None
  /\ self_threshold_pace_mps = None
  /\ tss_history = <<>> /\ initial_ctl = RatZero /\ initial_atl = RatZero

\* a caller about to build WorkoutMetrics(**kwargs) and to score a workout with it
InitNew ==
  /\ mode = "new" /\ pc = "new_call"
  /\ kwargs \in KwargsValues
  /\ tsb_arg = RatZero
  /\ workouts = <<>> /\ workout = NoWorkout
  /\ threshold_pace_mps \in Opt({3}) /\ threshold_heartrate = None
  /\ self_threshold_pace_mps = None
  /\ tss_history = <<>> /\ initial_ctl = RatZero /\ initial_atl = RatZero

Init ==
  /\ InitCommon /\ callers = <<>>
  /\ (InitCtl \/ InitGc \/ InitTss \/ InitEst \/ InitInt \/ InitNew)

----------------------------------------------------------------------------
(* calculate_ctl_atl_tsb                                                   *)

\* variant: tss_history.sort(key=...) sorts the caller's list in place
CtlEnter_InPlace ==
  /\ pc = "ctl_call"
  /\ calls' = calls + 1
  /\ IF tss_history = <<>>
     THEN /\ results' = <<>>
          /\ pc' = "ctl_ret"
          /\ UNCHANGED <<tss_history, sorted_history, start_date, end_date, tss_dict,
                         current_date, ctl, atl>>
     ELSE LET srt == SortedByDate(tss_history)
          IN /\ tss_history' = srt
             /\ sorted_history' = srt
             /\ start_date' = srt[1][1]
             /\ end_date' = srt[Len(srt)][1]
             /\ tss_dict' = DictOf(srt)
             /\ results' = <<>>
             /\ current_date' = srt[1][1]
             /\ ctl' = initial_ctl
             /\ atl' = initial_atl
             /\ pc' = "ctl_loop"
  /\ UNCHANGED <<otherEntries, mode, estimated_ftp, self_threshold_pace_mps, gcArgs, workout, idx, score, ret,
                 initial_ctl, initial_atl, first_results>>

\* lines 217-234: empty check, sort into a new list, range, lookup table, locals
CtlEnter ==
  /\ pc = "ctl_call"
  /\ calls' = calls + 1
  /\ IF tss_history = <<>>
     THEN /\ results' = <<>>
          /\ pc' = "ctl_ret"
          /\ UNCHANGED <<sorted_history, start_date, end_date, tss_dict,
                         current_date, ctl, atl>>
     ELSE LET srt == SortedByDate(tss_history)
          IN /\ sorted_history' = srt
             /\ start_date' = srt[1][1]
             /\ end_date' = srt[Len(srt)][1]
             /\ tss_dict' = DictOf(srt)
             /\ results' = <<>>
             /\ current_date' = srt[1][1]
             /\ ctl' = initial_ctl
             /\ atl' = initial_atl
             /\ pc' = "ctl_loop"
  /\ UNCHANGED <<otherEntries, mode, estimated_ftp, self_threshold_pace_mps, gcArgs, workout, idx, score, ret,
                 tss_history, initial_ctl, initial_atl, first_results>>

\* variant: the loop advances by two days
CtlLoop_SkipDay ==
  /\ pc = "ctl_loop"
  /\ LoopCond(current_date, end_date)
  /\ LET tss == DictGet(tss_dict, current_date)
         c   == EwmaStep(ctl, tss, CTL_TIME_CONSTANT)
         a   == EwmaStep(atl, tss, ATL_TIME_CONSTANT)
         tsb == RatSub(c, a)
     IN /\ ctl' = c
        /\ atl' = a
        /\ results' = Append(results, TrainingLoad(current_date, tss, c, a, tsb))
  /\ current_date' = current_date + 2
  /\ UNCHANGED <<otherEntries, mode, estimated_ftp, pc, calls, self_threshold_pace_mps, gcArgs, workout, idx,
                 score, ret, tss_history, initial_ctl, initial_atl, sorted_history,
                 start_date, end_date, tss_dict, first_results>>

\* lines 236-257: one iteration of the while loop
CtlLoop ==
  /\ pc = "ctl_loop"
  /\ LoopCond(current_date, end_date)
  /\ LET tss == DictGet(tss_dict, current_date)
         c   == EwmaStep(ctl, tss, CTL_TIME_CONSTANT)
         a   == EwmaStep(atl, tss, ATL_TIME_CONSTANT)
         tsb == RatSub(c, a)
     IN /\ ctl' = c
        /\ atl' = a
        /\ results' = Append(results, TrainingLoad(current_date, tss, c, a, tsb))
  /\ current_date' = current_date + 1
  /\ UNCHANGED <<otherEntries, mode, estimated_ftp, pc, calls, self_threshold_pace_mps, gcArgs, workout, idx,
                 score, ret, tss_history, initial_ctl, initial_atl, sorted_history,
                 start_date, end_date, tss_dict, first_results>>

\* lines 236, 259: the loop condition fails and results is returned
CtlReturn ==
  /\ pc = "ctl_loop"
  /\ ~LoopCond(current_date, end_date)
  /\ pc' = "ctl_ret"
  /\ UNCHANGED <<otherEntries, mode, estimated_ftp, calls, self_threshold_pace_mps, gcArgs, workout, idx, score,
                 ret, tss_history, initial_ctl, initial_atl, ctlLocals,
                 first_results>>

\* the caller keeps the returned list and calls again with the same arguments
CallAgain ==
  /\ mode = "ctl" /\ pc = "ctl_ret" /\ calls = 1
  /\ first_results' = results
  /\ pc' = "ctl_call"
  /\ UNCHANGED <<otherEntries, mode, estimated_ftp, calls, self_threshold_pace_mps, gcArgs, workout, idx, score,
                 ret, tss_history, initial_ctl, initial_atl, ctlLocals>>

----------------------------------------------------------------------------
(* get_current_training_load                                               *)

\* variant: an empty list yields a record of zeros
GcEnter_ZeroRecord ==
  /\ pc = "gc_call"
  /\ IF workouts = <<>>
     THEN /\ ret' = Some(TrainingLoad(0, RatZero, RatZero, RatZero, RatZero))
          /\ pc' = "gc_ret" /\ UNCHANGED <<tss_history, idx>>
     ELSE ret' = ret /\ pc' = "gc_loop" /\ tss_history' = <<>> /\ idx' = 1
  /\ UNCHANGED <<otherEntries, mode, estimated_ftp, calls, self_threshold_pace_mps, gcArgs, workout, score,
                 initial_ctl, initial_atl, ctlLocals, first_results>>

\* lines 312-316: empty check, tss_history = []
GcEnter ==
  /\ pc = "gc_call"
  /\ IF workouts = <<>>
     THEN ret' = None /\ pc' = "gc_ret" /\ UNCHANGED <<tss_history, idx>>
     ELSE ret' = ret /\ pc' = "gc_loop" /\ tss_history' = <<>> /\ idx' = 1
  /\ UNCHANGED <<otherEntries, mode, estimated_ftp, calls, self_threshold_pace_mps, gcArgs, workout, score,
                 initial_ctl, initial_atl, ctlLocals, first_results>>

\* variant: the scores of one calendar date are added up
GcScore_Aggregate ==
  /\ pc = "gc_loop"
  /\ idx <= Len(workouts)
  /\ LET w    == workouts[idx]
         tss  == calculate_workout_tss(w, threshold_pace_mps, threshold_heartrate,
                                       self_threshold_pace_mps)
         same == {j \in DOMAIN tss_history : tss_history[j][1] = DateOf(w.date)}
         sum  == IF same = {} THEN tss
                 ELSE RatAdd(tss, tss_history[CHOOSE j \in same : \A i \in same : i <= j][2])
     IN /\ workout' = w
        /\ score' = Some(tss)
        /\ tss_history' = Append(tss_history, <<DateOf(w.date), sum>>)
  /\ idx' = idx + 1
  /\ UNCHANGED <<otherEntries, mode, estimated_ftp, pc, calls, self_threshold_pace_mps, gcArgs, ret, initial_ctl,
                 initial_atl, ctlLocals, first_results>>

\* lines 317-323: one iteration of the for loop
GcScore ==
  /\ pc = "gc_loop"
  /\ idx <= Len(workouts)
  /\ LET w   == workouts[idx]
         tss == calculate_workout_tss(w, threshold_pace_mps, threshold_heartrate,
                                      self_threshold_pace_mps)
     IN /\ workout' = w
        /\ score' = Some(tss)
        /\ tss_history' = Append(tss_history, <<DateOf(w.date), tss>>)
  /\ idx' = idx + 1
  /\ UNCHANGED <<otherEntries, mode, estimated_ftp, pc, calls, self_threshold_pace_mps, gcArgs, ret, initial_ctl,
                 initial_atl, ctlLocals, first_results>>

\* line 326: the call of calculate_ctl_atl_tsb(tss_history) with default seeds
GcCallCtl ==
  /\ pc = "gc_loop"
  /\ idx > Len(workouts)
  /\ initial_ctl' = RatZero
  /\ initial_atl' = RatZero
  /\ pc' = "ctl_call"
  /\ UNCHANGED <<otherEntries, mode, estimated_ftp, calls, self_threshold_pace_mps, gcArgs, workout, idx, score,
                 ret, tss_history, ctlLocals, first_results>>

\* variant: return load_history[0]
GcReturn_First ==
  /\ mode = "gc" /\ pc = "ctl_ret"
  /\ ret' = IF results # <<>> THEN Some(results[1]) ELSE None
  /\ pc' = "gc_ret"
  /\ UNCHANGED <<otherEntries, mode, estimated_ftp, calls, self_threshold_pace_mps, gcArgs, workout, idx, score,
                 tss_history, initial_ctl, initial_atl, ctlLocals, first_results>>

\* line 329: return load_history[-1] if load_history else None
GcReturn ==
  /\ mode = "gc" /\ pc = "ctl_ret"
  /\ ret' = IF results # <<>> THEN Some(results[Len(results)]) ELSE None
  /\ pc' = "gc_ret"
  /\ UNCHANGED <<otherEntries, mode, estimated_ftp, calls, self_threshold_pace_mps, gcArgs, workout, idx, score,
                 tss_history, initial_ctl, initial_atl, ctlLocals, first_results>>

----------------------------------------------------------------------------
(* calculate_workout_tss called on its own                                 *)

TssCall ==
  /\ pc = "tss_call"
  /\ score' = Some(calculate_workout_tss(workout, threshold_pace_mps,
                                         threshold_heartrate,
                                         self_threshold_pace_mps))
  /\ pc' = "tss_ret"
  /\ UNCHANGED <<otherEntries, mode, estimated_ftp, calls, self_threshold_pace_mps, gcArgs, workout, idx, ret,
                 tss_history, initial_ctl, initial_atl, ctlLocals, first_results>>

----------------------------------------------------------------------------
(* estimate_threshold_pace called on its own                               *)

EstCall ==
  /\ pc = "est_call"
  /\ estimated_ftp' = estimate_threshold_pace(workouts)
  /\ pc' = "est_ret"
  /\ UNCHANGED <<otherEntries, mode, calls, self_threshold_pace_mps, gcArgs, workout, idx, score,
                 ret, tss_history, initial_ctl, initial_atl, ctlLocals, first_results>>

----------------------------------------------------------------------------
(* interpret_tsb called on its own                                          *)

IntCall ==
  /\ pc = "int_call"
  /\ interpretation' = interpret_tsb(tsb_arg)
  /\ pc' = "int_ret"
  /\ UNCHANGED <<tsb_arg, newVars, callers, mode, estimated_ftp, calls, self_threshold_pace_mps, gcArgs, workout,
                 idx, score, ret, tss_history, initial_ctl, initial_atl, ctlLocals,
                 first_results>>

----------------------------------------------------------------------------
(* WorkoutMetrics(...) and the scoring of a workout built from it          *)

\* construction: the record, or ValidationError
NewCall ==
  /\ pc = "new_call"
  /\ metrics_new' = WorkoutMetrics(kwargs)
  /\ pc' = IF WorkoutMetrics(kwargs) = None THEN "new_raise" ELSE "new_ret"
  /\ UNCHANGED <<intVars, kwargs, callers, mode, estimated_ftp, calls,
                 self_threshold_pace_mps, gcArgs, workout, idx, score, ret, tss_history,
                 initial_ctl, initial_atl, ctlLocals, first_results>>

\* the caller scores a workout that carries the record
NewScore ==
  /\ pc = "new_ret"
  /\ workout' = Workout(0, "easy", metrics_new[1])
  /\ score' = Some(calculate_workout_tss(Workout(0, "easy", metrics_new[1]),
                                         threshold_pace_mps, threshold_heartrate,
                                         self_threshold_pace_mps))
  /\ pc' = "new_scored"
  /\ UNCHANGED <<otherEntries, mode, estimated_ftp, calls, self_threshold_pace_mps, gcArgs,
                 idx, ret, tss_history, initial_ctl, initial_atl, ctlLocals,
                 first_results>>

Next ==
  \/ CtlEnter \/ CtlLoop \/ CtlReturn \/ CallAgain
  \/ GcEnter \/ GcScore \/ GcCallCtl \/ GcReturn
  \/ TssCall
  \/ EstCall
  \/ IntCall
  \/ NewCall \/ NewScore

Spec == Init /\ [][Next]_vars

\* a step of the while loop as seen on pc and current_date: an iteration
\* (CtlLoop) or the exit (CtlReturn)
LoopStep ==
  /\ pc = "ctl_loop"
  /\ \/ pc' = pc /\ current_date' = current_date + 1
     \/ pc' = "ctl_ret" /\ current_date' = current_date

\* a call that has entered the while loop keeps running: the interpreter goes
\* on with the next iteration or with the return
FairSpec == Spec /\ WF_<<pc, current_date>>(LoopStep)

----------------------------------------------------------------------------
(* Concurrent callers of one shared calculator, as the request handlers of *)
(* app.py use training_load_calc: each estimates the threshold pace of its *)
(* workouts and asks for the current training load with it.  callers[p]    *)
(* holds the arguments and locals of caller p; self_threshold_pace_mps is   *)
(* the one field of the shared instance.                                    *)

Callers == {1, 2}

\* a one-hour tempo run at 3 m/s on day 0, a twenty-minute easy run on day 1
ParTempo ==
  Workout(0, "tempo", Metrics(RatOfInt(10800), RatOfInt(3600), None, Some(RatOfInt(3)), None))
ParEasy ==
  Workout(SlotsPerDay, "easy",
          Metrics(RatOfInt(3000), RatOfInt(1200), None, Some(Frac(5, 2)), Some(RatOfInt(150))))
ParWorkoutLists == {<<>>, <<ParTempo>>, <<ParEasy>>, <<ParEasy, ParTempo>>}

Caller(ws) ==
  [pc |-> "est_call", workouts |-> ws, threshold_pace |-> None, idx |-> 0,
   tss_history |-> <<>>, end_date |-> 0, tss_dict |-> <<>>, current_date |-> 0,
   ctl |-> RatZero, atl |-> RatZero, results |-> <<>>, ret |-> None]

ParInit ==
  /\ InitCommon
  /\ mode = "par" /\ pc = "par"
  /\ tsb_arg = RatZero /\ kwargs = NoKwargs
  /\ workouts = <<>> /\ workout = NoWorkout
  /\ threshold_pace_mps = None /\ threshold_heartrate = None
  /\ tss_history = <<>> /\ initial_ctl = RatZero /\ initial_atl = RatZero
  /\ self_threshold_pace_mps \in Opt({3})
  /\ callers \in [Callers -> {Caller(ws) : ws \in ParWorkoutLists}]

\* the variables of the single caller, which the concurrent callers leave alone
singleCaller ==
  <<mode, pc, calls, gcArgs, workout, idx, score, estimated_ftp, ret, tss_history,
    initial_ctl, initial_atl, ctlLocals, first_results, intVars, newVars>>

\* app.py line 487: threshold_pace = training_load_calc.estimate_threshold_pace(workouts)
ParEstimate(p) ==
  /\ callers[p].pc = "est_call"
  /\ callers' = [callers EXCEPT ![p].threshold_pace = estimate_threshold_pace(callers[p].workouts),
                                ![p].pc = "gc_call"]
  /\ UNCHANGED <<self_threshold_pace_mps, singleCaller>>

\* lines 312-316 of get_current_training_load
ParGcEnter(p) ==
  /\ callers[p].pc = "gc_call"
  /\ callers' = IF callers[p].workouts = <<>>
                THEN [callers EXCEPT ![p].ret = None, ![p].pc = "gc_ret"]
                ELSE [callers EXCEPT ![p].tss_history = <<>>, ![p].idx = 1,
                                     ![p].pc = "gc_loop"]
  /\ UNCHANGED <<self_threshold_pace_mps, singleCaller>>

\* variant: the method keeps the threshold pace it was given in the instance
ParGcScore_StoresThreshold(p) ==
  /\ callers[p].pc = "gc_loop"
  /\ callers[p].idx <= Len(callers[p].workouts)
  /\ LET w   == callers[p].workouts[callers[p].idx]
         tss == calculate_workout_tss(w, callers[p].threshold_pace, None,
                                      self_threshold_pace_mps)
     IN callers' = [callers EXCEPT ![p].tss_history = Append(@, <<DateOf(w.date), tss>>),
                                   ![p].idx = @ + 1]
  /\ self_threshold_pace_mps' = PyOr(callers[p].threshold_pace, self_threshold_pace_mps)
  /\ UNCHANGED singleCaller

\* lines 317-323: one iteration of the for loop; calculate_workout_tss reads
\* self.threshold_pace_mps
ParGcScore(p) ==
  /\ callers[p].pc = "gc_loop"
  /\ callers[p].idx <= Len(callers[p].workouts)
  /\ LET w   == callers[p].workouts[callers[p].idx]
         tss == calculate_workout_tss(w, callers[p].threshold_pace, None,
                                      self_threshold_pace_mps)
     IN callers' = [callers EXCEPT ![p].tss_history = Append(@, <<DateOf(w.date), tss>>),
                                   ![p].idx = @ + 1]
  /\ UNCHANGED <<self_threshold_pace_mps, singleCaller>>

\* line 326 and lines 217-234: the call of calculate_ctl_atl_tsb up to its loop
ParCtlEnter(p) ==
  /\ callers[p].pc = "gc_loop"
  /\ callers[p].idx > Len(callers[p].workouts)
  /\ LET srt == SortedByDate(callers[p].tss_history)
     IN callers' = [callers EXCEPT ![p].end_date = srt[Len(srt)][1],
                                   ![p].tss_dict = DictOf(srt),
                                   ![p].current_date = srt[1][1],
                                   ![p].ctl = RatZero, ![p].atl = RatZero,
                                   ![p].results = <<>>, ![p].pc = "ctl_loop"]
  /\ UNCHANGED <<self_threshold_pace_mps, singleCaller>>

\* lines 236-257: one iteration of the while loop
ParCtlLoop(p) ==
  /\ callers[p].pc = "ctl_loop"
  /\ LoopCond(callers[p].current_date, callers[p].end_date)
  /\ LET tss == DictGet(callers[p].tss_dict, callers[p].current_date)
         c   == EwmaStep(callers[p].ctl, tss, CTL_TIME_CONSTANT)
         a   == EwmaStep(callers[p].atl, tss, ATL_TIME_CONSTANT)
     IN callers' = [callers EXCEPT ![p].ctl = c, ![p].atl = a,
                                   ![p].results = Append(@, TrainingLoad(callers[p].current_date,
                                                                         tss, c, a, RatSub(c, a))),
                                   ![p].current_date = @ + 1]
  /\ UNCHANGED <<self_threshold_pace_mps, singleCaller>>

\* lines 259 and 329: the loop ends and the last record is returned
ParReturn(p) ==
  /\ callers[p].pc = "ctl_loop"
  /\ ~LoopCond(callers[p].current_date, callers[p].end_date)
  /\ callers' = [callers EXCEPT ![p].ret = IF callers[p].results # <<>>
                                           THEN Some(callers[p].results[Len(callers[p].results)])
                                           ELSE None,
                                ![p].pc = "gc_ret"]
  /\ UNCHANGED <<self_threshold_pace_mps, singleCaller>>

ParNext ==
  \E p \in Callers :
    \/ ParEstimate(p) \/ ParGcEnter(p) \/ ParGcScore(p)
    \/ ParCtlEnter(p) \/ ParCtlLoop(p) \/ ParReturn(p)

ParSpec == ParInit /\ [][ParNext]_vars

----------------------------------------------------------------------------
(* Properties of calculate_ctl_atl_tsb.  At pc = "ctl_ret" the variable    *)
(* results is the list the call returned for tss_history and the seeds.    *)

InputDates == {tss_history[j][1] : j \in DOMAIN tss_history}
EarliestDate == CHOOSE d \in InputDates : \A e \in InputDates : d <= e
LatestDate == CHOOSE d \in InputDates : \A e \in InputDates : e <= d
ZeroSeeds == initial_ctl = RatZero /\ initial_atl = RatZero

\* the ctl and atl a record is computed from: the seeds for the first record
PrevCtl(k) == IF k = 1 THEN initial_ctl ELSE results[k - 1].ctl
PrevAtl(k) == IF k = 1 THEN initial_atl ELSE results[k - 1].atl

\* C1: for a non-empty tss_history the returned list has (latest date -
\* earliest date) + 1 records, starts at the earliest input date, ends at the
\* latest, and every record is dated one day after the record before it.
C1_ContiguousSeries ==
  (pc = "ctl_ret" /\ tss_history # <<>>) =>
    /\ Len(results) = LatestDate - EarliestDate + 1
    /\ results[1].date = EarliestDate
    /\ results[Len(results)].date = LatestDate
    /\ \A k \in 2 .. Len(results) : results[k].date = results[k - 1].date + 1

\* an unsorted history with a repeated date and a day without entry has returned
C1_Witness ==
  /\ pc = "ctl_ret" /\ Len(tss_history) = 3
  /\ tss_history[1][1] = 2 /\ tss_history[2][1] = 0 /\ tss_history[3][1] = 0
  /\ Len(results) = 3

\* C2: every returned record k satisfies 42 * (ctl_k - ctl_(k-1)) = tss_k -
\* ctl_(k-1), 7 * (atl_k - atl_(k-1)) = tss_k - atl_(k-1) and tsb_k = ctl_k -
\* atl_k, with the seeds before the first record; a call that passes no seeds
\* (the one of get_current_training_load) runs with both seeds 0.
C2_Recurrence ==
  (pc = "ctl_ret") =>
    /\ \A k \in 1 .. Len(results) :
         /\ RatMul(RatOfInt(42), RatSub(results[k].ctl, PrevCtl(k)))
              = RatSub(results[k].tss, PrevCtl(k))
         /\ RatMul(RatOfInt(7), RatSub(results[k].atl, PrevAtl(k)))
              = RatSub(results[k].tss, PrevAtl(k))
         /\ results[k].tsb = RatSub(results[k].ctl, results[k].atl)
    /\ (mode = "gc" => ZeroSeeds)

\* a seeded call has returned at least three records, one with a positive score
C2_Witness ==
  /\ pc = "ctl_ret" /\ mode = "ctl" /\ ~ZeroSeeds
  /\ Len(results) >= 3
  /\ \E k \in 2 .. Len(results) : results[k].tss = RatOfInt(80)

\* C3: a record dated on an input date carries the score stored for that date,
\* which is the score of an input entry of that date; a record dated on a day
\* without input entry has tss 0 and its ctl and atl are still updated (they
\* are 41/42 and 6/7 of the values before).
C3_GapDaysScoreZero ==
  (pc = "ctl_ret") =>
    \A k \in 1 .. Len(results) :
      IF results[k].date \in InputDates
      THEN /\ results[k].tss = tss_dict[results[k].date]
           /\ \E j \in DOMAIN tss_history :
                tss_history[j] = <<results[k].date, results[k].tss>>
      ELSE /\ results[k].tss = RatZero
           /\ RatMul(RatOfInt(42), results[k].ctl) = RatMul(RatOfInt(41), PrevCtl(k))
           /\ RatMul(RatOfInt(7), results[k].atl) = RatMul(RatOfInt(6), PrevAtl(k))

\* a returned list has a record on a day without entry, after a day that
\* left ctl above 0
C3_Witness ==
  /\ pc = "ctl_ret"
  /\ \E k \in 2 .. Len(results) :
       /\ results[k].date \notin InputDates
       /\ results[k - 1].tss = RatOfInt(50)
       /\ results[k].ctl # results[k - 1].ctl
       /\ results[k].ctl # RatZero

\* C4: when several entries have the same date, the record of that date carries
\* the score of the entry that comes last in the caller's list among them; the
\* scores are not summed.
C4_LastWriteWins ==
  (pc = "ctl_ret") =>
    \A k \in 1 .. Len(results) : \A j \in DOMAIN tss_history :
      (/\ tss_history[j][1] = results[k].date
       /\ \A j2 \in DOMAIN tss_history : j2 > j => tss_history[j2][1] # results[k].date)
      => results[k].tss = tss_history[j][2]

\* two entries of one date with different scores, an entry of a later date
\* first in the list, and the record of the shared date carries the last score
C4_Witness ==
  /\ pc = "ctl_ret" /\ Len(tss_history) = 3
  /\ tss_history[1][1] = 2
  /\ tss_history[2] = <<0, RatOfInt(80)>>
  /\ tss_history[3] = <<0, RatOfInt(50)>>
  /\ Len(results) = 3 /\ results[1].tss = RatOfInt(50)

\* C5: for a history holding one date, whose score is S, and zero seeds the
\* returned list has one record, with ctl = S/42, atl = S/7, tsb = S/42 - S/7.
C5_SingleDay ==
  (pc = "ctl_ret" /\ tss_history # <<>> /\ Cardinality(InputDates) = 1 /\ ZeroSeeds) =>
    LET S == tss_history[Len(tss_history)][2]
    IN /\ Len(results) = 1
       /\ results[1].ctl = RatDiv(S, RatOfInt(42))
       /\ results[1].atl = RatDiv(S, RatOfInt(7))
       /\ results[1].tsb = RatSub(RatDiv(S, RatOfInt(42)), RatDiv(S, RatOfInt(7)))

\* the one-entry history day 1: 50 has returned under zero seeds
C5_Witness ==
  /\ pc = "ctl_ret" /\ ZeroSeeds
  /\ tss_history = <<<<1, RatOfInt(50)>>>>
  /\ Len(results) = 1 /\ results[1].ctl = Frac(50, 42)

\* C6: the history day 0: 50, day 1: 0, day 5: 80 with zero seeds returns six
\* records, days 0 to 5, and the ctl of day 3 is the ctl of day 2 times
\* (1 - 1/42); on every day whose score is 0 the ctl is 41/42 of the ctl
\* before and the atl is 6/7 of the atl before.
C6_RestDayDecay ==
  (pc = "ctl_ret") =>
    /\ (tss_history = Scenario /\ ZeroSeeds) =>
         /\ Len(results) = 6
         /\ \A k \in 1 .. 6 : results[k].date = k - 1
         /\ results[4].ctl =
              RatMul(results[3].ctl, RatSub(RatOfInt(1), Frac(1, 42)))
    /\ \A k \in 1 .. Len(results) :
         results[k].tss = RatZero =>
           /\ results[k].ctl = RatMul(PrevCtl(k), Frac(41, 42))
           /\ results[k].atl = RatMul(PrevAtl(k), Frac(6, 7))

\* the scenario has returned under zero seeds, with ctl above 0 on day 2
C6_Witness ==
  /\ pc = "ctl_ret" /\ tss_history = Scenario /\ ZeroSeeds
  /\ Len(results) = 6
  /\ RatLt(RatZero, results[3].ctl)

\* C7: a call never changes the caller's tss_history, and the second of two
\* calls with the same history and seeds returns the list the first returned.
C7_PureCall ==
  [][/\ (pc \in {"ctl_call", "ctl_loop"} => tss_history' = tss_history)
     /\ ((mode = "ctl" /\ calls' = 2 /\ pc' = "ctl_ret") => results' = first_results')]_vars

\* the second call has returned for an unsorted history and nonzero seeds
C7_Witness ==
  /\ mode = "ctl" /\ calls = 2 /\ pc = "ctl_ret" /\ ~ZeroSeeds
  /\ Len(tss_history) >= 2 /\ tss_history[1][1] > tss_history[2][1]
  /\ Len(results) >= 2 /\ results = first_results

----------------------------------------------------------------------------
(* Properties of get_current_training_load and calculate_workout_tss.      *)

\* C8: get_current_training_load returns None for the empty workout list and
\* only for it: a non-empty list yields a record.
C8_NoDataOnlyWhenEmpty ==
  (pc = "gc_ret") => (ret = None <=> workouts = <<>>)

\* the call on the empty list has returned None
C8_Witness == pc = "gc_ret" /\ workouts = <<>> /\ ret = None

\* C9: for a non-empty workout list the call hands calculate_ctl_atl_tsb the
\* pairs (calendar date, calculate_workout_tss with the given thresholds) in
\* list order with zero seeds, returns the last record of that run, and that
\* record is dated on the latest calendar date of the list.
C9_CurrentIsLastRecord ==
  (pc = "gc_ret" /\ workouts # <<>>) =>
    /\ calls = 1
    /\ tss_history =
         [k \in 1 .. Len(workouts) |->
            <<workouts[k].date \div SlotsPerDay,
              calculate_workout_tss(workouts[k], threshold_pace_mps,
                                    threshold_heartrate, self_threshold_pace_mps)>>]
    /\ ZeroSeeds
    /\ ret = Some(results[Len(results)])
    /\ \A k \in 1 .. Len(workouts) : workouts[k].date \div SlotsPerDay <= ret[1].date
    /\ \E k \in 1 .. Len(workouts) : workouts[k].date \div SlotsPerDay = ret[1].date

\* the call has returned for two workouts, the later day first in the list
C9_Witness ==
  /\ pc = "gc_ret" /\ Len(workouts) = 2
  /\ workouts[1].date \div SlotsPerDay > workouts[2].date \div SlotsPerDay
  /\ workouts[1].date % SlotsPerDay # 0
  /\ ret # None /\ ret[1].date = workouts[1].date \div SlotsPerDay

\* the workout with its average heart rate replaced
WithHeartrate(w, h) == [w EXCEPT !.metrics.average_heartrate = h]

\* the score does not change when the heart-rate inputs do
HeartrateIndependent ==
  \A h \in Opt({0, 150, 170}), th \in Opt({0, -160, 160}) :
    calculate_workout_tss(WithHeartrate(workout, h), threshold_pace_mps, th,
                          self_threshold_pace_mps) = score[1]

\* C10: with a threshold pace, an average speed and an elevation-gain reading
\* the score is the pace+elevation score; with a threshold pace, an average
\* speed and no elevation reading it is the pace-only score; in both cases it
\* does not depend on average_heartrate or threshold_heartrate.
C10_MethodPriority ==
  (mode = "tss" /\ pc = "tss_ret") =>
    LET m  == workout.metrics
        tp == PyOr(threshold_pace_mps, self_threshold_pace_mps)
    IN /\ (Truthy(tp) /\ m.average_speed # None /\ m.total_elevation_gain # None) =>
            /\ score = Some(calculate_tss_with_elevation(
                              m.moving_time, m.distance, m.total_elevation_gain[1],
                              tp, self_threshold_pace_mps))
            /\ HeartrateIndependent
       /\ (Truthy(tp) /\ m.average_speed # None /\ m.total_elevation_gain = None) =>
            /\ score = Some(calculate_tss(m.moving_time, m.average_speed[1], tp,
                                          self_threshold_pace_mps))
            /\ HeartrateIndependent

----------------------------------------------------------------------------
(* Properties of the scoring methods.  At pc = "tss_ret" the variable      *)
(* score holds what calculate_workout_tss returned for workout.            *)

TssReturned == mode = "tss" /\ pc = "tss_ret"

\* the threshold pace in force: the argument, else the instance value
PaceInForce == PyOr(threshold_pace_mps, self_threshold_pace_mps)
PositivePace == Truthy(PaceInForce) /\ RatLt(RatZero, PaceInForce[1])
NoPaceMethod == ~Truthy(PaceInForce) \/ workout.metrics.average_speed = None
PositiveThresholdHr == threshold_heartrate # None /\ RatLt(RatZero, threshold_heartrate[1])

Sq(x) == RatMul(x, x)

\* (seconds / 3600) * (value / reference)^2 * 100
ScoreFormula(seconds, value, reference) ==
  RatMul(RatMul(RatDiv(seconds, RatOfInt(3600)), Sq(RatDiv(value, reference))),
         RatOfInt(100))

\* (moving_time / 3600) * (h / H)^2 * 100 for the workout's heart rate
HeartrateFormula ==
  ScoreFormula(workout.metrics.moving_time, workout.metrics.average_heartrate[1],
               threshold_heartrate[1])

\* C11: with a positive threshold pace T, an average speed and an elevation
\* reading G >= 0 the score is
\* (moving_time / 3600) * (((distance + 10 * G) / moving_time) / T)^2 * 100.
C11_ElevationFormula ==
  LET m == workout.metrics
  IN (TssReturned /\ PositivePace /\ m.average_speed # None
        /\ m.total_elevation_gain # None) =>
       score[1] =
         ScoreFormula(m.moving_time,
                      RatDiv(RatAdd(m.distance,
                                    RatMul(RatOfInt(10), m.total_elevation_gain[1])),
                             m.moving_time),
                      PaceInForce[1])

\* C12: with no elevation reading, a positive threshold pace T and a present
\* average speed v >= 0 the score is (moving_time / 3600) * (v / T)^2 * 100,
\* floored at 0.
C12_PaceFormula ==
  LET m == workout.metrics
  IN (TssReturned /\ PositivePace /\ m.average_speed # None
        /\ m.total_elevation_gain = None) =>
       score[1] = RatMax(RatZero, ScoreFormula(m.moving_time, m.average_speed[1],
                                               PaceInForce[1]))

\* C13: when no pace method applies and a positive threshold heart rate H and
\* an average heart rate h are known, the score is
\* (moving_time / 3600) * (h / H)^2 * 100.
C13_HeartrateFormula ==
  (TssReturned /\ NoPaceMethod /\ PositiveThresholdHr
     /\ workout.metrics.average_heartrate # None) =>
    score[1] = HeartrateFormula

\* C14: when no pace method applies (no threshold pace or no average speed)
\* and the heart-rate method does not apply (no threshold heart rate or no
\* average heart rate), the score is 50 * moving_time / 3600, whatever the
\* distance, elevation and run type.
C14_DurationFallback ==
  (TssReturned /\ NoPaceMethod
     /\ (~Truthy(threshold_heartrate) \/ workout.metrics.average_heartrate = None)) =>
    score[1] = RatDiv(RatMul(RatOfInt(50), workout.metrics.moving_time), RatOfInt(3600))

\* the fallback has been returned for a race of 5000 m with an elevation
\* reading and an average speed, and for no threshold pace
C14_Witness ==
  /\ TssReturned /\ PaceInForce = None
  /\ workout.run_type = "race"
  /\ workout.metrics.distance = RatOfInt(5000)
  /\ workout.metrics.moving_time = RatOfInt(1200)
  /\ workout.metrics.total_elevation_gain = Some(RatOfInt(90))
  /\ workout.metrics.average_speed = Some(RatOfInt(3))
  /\ workout.metrics.average_heartrate = Some(RatOfInt(150))
  /\ threshold_heartrate = None
  /\ score = Some(Frac(50, 3))

NotUsable(p) == p = None \/ RatLe(p[1], RatZero)

\* C15: when the threshold pace argument and the instance value are None, 0
\* or negative and a positive threshold heart rate and a positive average
\* heart rate are known, the score is the heart-rate score.
C15_FallThroughToHeartrate ==
  (TssReturned /\ NotUsable(threshold_pace_mps) /\ NotUsable(self_threshold_pace_mps)
     /\ PositiveThresholdHr /\ Truthy(workout.metrics.average_heartrate)) =>
    score[1] = HeartrateFormula

\* C16: with a positive threshold pace T and an average speed equal to T the
\* pace-based score is 100 times the duration in hours.
C16_UnitIntensity ==
  LET D100 == RatMul(RatDiv(workout.metrics.moving_time, RatOfInt(3600)), RatOfInt(100))
  IN (TssReturned /\ PositivePace) =>
       /\ calculate_tss(workout.metrics.moving_time, PaceInForce[1],
                        threshold_pace_mps, self_threshold_pace_mps) = D100
       /\ (workout.metrics.average_speed = PaceInForce
             /\ workout.metrics.total_elevation_gain = None) => score[1] = D100

\* twenty minutes at the threshold pace 2.5 m/s have scored 100/3
C16_Witness ==
  /\ TssReturned /\ PaceInForce = Some(Frac(5, 2))
  /\ workout.metrics.average_speed = Some(Frac(5, 2))
  /\ workout.metrics.total_elevation_gain = None
  /\ workout.metrics.moving_time = RatOfInt(1200)
  /\ score = Some(Frac(100, 3))

\* the two scores C17 compares, for the workout and the threshold pace in force
PlainScore ==
  calculate_tss(workout.metrics.moving_time, workout.metrics.average_speed[1],
                PaceInForce, self_threshold_pace_mps)
ElevationScore ==
  calculate_tss_with_elevation(workout.metrics.moving_time, workout.metrics.distance,
                               workout.metrics.total_elevation_gain[1],
                               PaceInForce, self_threshold_pace_mps)
\* the plain score is at most (below) the elevation-adjusted one; the bound
\* variables hold the two scores as computed values
PlainAtMostElevation == \A p \in {PlainScore} : \A e \in {ElevationScore} : RatLe(p, e)
PlainBelowElevation == \A p \in {PlainScore} : \A e \in {ElevationScore} : RatLt(p, e)
GainAboveZero ==
  /\ workout.metrics.total_elevation_gain # None
  /\ RatLt(RatZero, workout.metrics.total_elevation_gain[1])

\* C17 as stated: for every workout with elevation gain > 0 and every positive
\* threshold pace the elevation-adjusted score is at least the plain
\* pace-based score of metrics.average_speed.
C17_ElevationNotBelowPlain_Original ==
  (TssReturned /\ PositivePace /\ GainAboveZero
     /\ workout.metrics.average_speed # None) =>
    PlainAtMostElevation

\* C17 amended: the same for every workout whose metrics.average_speed does
\* not exceed distance / moving_time.
C17_ElevationNotBelowPlain ==
  (TssReturned /\ PositivePace /\ GainAboveZero
     /\ workout.metrics.average_speed # None
     /\ RatLe(workout.metrics.average_speed[1],
              RatDiv(workout.metrics.distance, workout.metrics.moving_time))) =>
    PlainAtMostElevation

\* a workout of 9000 m in an hour with average speed 2.5 m/s and 90 m of gain
\* has been scored, above its plain score
C17_Witness ==
  /\ TssReturned /\ PaceInForce = Some(RatOfInt(3))
  /\ workout.metrics.distance = RatOfInt(9000)
  /\ workout.metrics.moving_time = RatOfInt(3600)
  /\ workout.metrics.average_speed = Some(Frac(5, 2))
  /\ workout.metrics.total_elevation_gain = Some(RatOfInt(90))
  /\ score = Some(ElevationScore)
  /\ PlainBelowElevation

\* C18: every score calculate_workout_tss returns is >= 0, for every workout
\* and every combination of thresholds.
C18_ScoreNotNegative ==
  score # None => RatLe(RatZero, score[1])

\* a score has been returned for a negative threshold pace and a negative
\* threshold heart rate, with heart-rate data and no average speed
C18_Witness ==
  /\ TssReturned
  /\ threshold_pace_mps = Some(RatOfInt(-3))
  /\ threshold_heartrate = Some(RatOfInt(-160))
  /\ workout.metrics.average_speed = None
  /\ workout.metrics.average_heartrate = Some(RatOfInt(150))
  /\ RatLt(RatZero, score[1])

----------------------------------------------------------------------------
(* Properties of estimate_threshold_pace.  At pc = "est_ret" the variable  *)
(* estimated_ftp holds what the call returned for workouts.                *)

\* a workout qualifies: tempo, race or intervals, at least 1200 s, speed known
Qualifies(w) ==
  /\ w.run_type \in {"tempo", "race", "intervals"}
  /\ RatLe(RatOfInt(1200), w.metrics.moving_time)
  /\ w.metrics.average_speed # None

QualifyingSpeeds ==
  {workouts[k].metrics.average_speed[1] : k \in {j \in DOMAIN workouts : Qualifies(workouts[j])}}

\* C19: estimate_threshold_pace returns None exactly when no workout of the
\* list qualifies.
C19_UnavailableIffNoneQualifies ==
  (pc = "est_ret") => (estimated_ftp = None <=> QualifyingSpeeds = {})

\* C20: when a workout qualifies, the estimate is 0.97 times the highest
\* average speed among the qualifying workouts.
C20_BestQualifyingSpeed ==
  (pc = "est_ret" /\ QualifyingSpeeds # {}) =>
    /\ estimated_ftp # None
    /\ estimated_ftp[1] =
         RatMul(Frac(97, 100),
                CHOOSE v \in QualifyingSpeeds : \A u \in QualifyingSpeeds : RatLe(u, v))

----------------------------------------------------------------------------
(* Properties of interpret_tsb.  At pc = "int_ret" the variable            *)
(* interpretation holds what the call returned for tsb.                    *)

IntReturned == mode = "int" /\ pc = "int_ret"

\* lo < tsb <= hi
Within(lo, hi) == RatLt(RatOfInt(lo), tsb_arg) /\ RatLe(tsb_arg, RatOfInt(hi))

\* C21: interpret_tsb returns for every tsb the one label of its bracket:
\* tsb > 25, 15 < tsb <= 25, 5 < tsb <= 15, -10 < tsb <= 5, -30 < tsb <= -10,
\* -50 < tsb <= -30, tsb <= -50; a threshold value belongs to the bracket
\* below it.
C21_Brackets ==
  IntReturned =>
    /\ RatLt(RatOfInt(25), tsb_arg) => interpretation = LosingFitness
    /\ Within(15, 25) => interpretation = RaceReadiness
    /\ Within(5, 15) => interpretation = GoodForRacing
    /\ Within(-10, 5) => interpretation = ProductiveZone
    /\ Within(-30, -10) => interpretation = BuildingFitness
    /\ Within(-50, -30) => interpretation = MonitorOvertraining
    /\ RatLe(tsb_arg, RatOfInt(-50)) => interpretation = RiskOvertraining

\* the threshold value -30 has been given the label of the bracket below it
C21_Witness ==
  IntReturned /\ tsb_arg = RatOfInt(-30) /\ interpretation = MonitorOvertraining

\* C22 as stated: interpret_tsb(25.0) returns the 'losing fitness' label.
C22_Boundary25_Original ==
  (IntReturned /\ tsb_arg = RatOfInt(25)) => interpretation = LosingFitness

\* C22 amended: interpret_tsb(25.0) returns the 'optimal race readiness' label.
C22_Boundary25 ==
  (IntReturned /\ tsb_arg = RatOfInt(25)) => interpretation = RaceReadiness

C22_Witness ==
  IntReturned /\ tsb_arg = RatOfInt(25) /\ interpretation = RaceReadiness

----------------------------------------------------------------------------
(* Properties of WorkoutMetrics construction.                              *)

Positive(v) == RatLt(RatZero, v)
KwargsPositive ==
  Positive(kwargs.distance) /\ Positive(kwargs.moving_time) /\ Positive(kwargs.elapsed_time)

\* C24: WorkoutMetrics with distance <= 0, moving_time <= 0 or elapsed_time <= 0
\* fails with a validation error and builds no record, and every workout
\* that has been scored has distance > 0 and moving_time > 0 (and
\* elapsed_time > 0 when built here).
C24_RejectedAtConstruction ==
  /\ (mode = "new" /\ pc # "new_call" /\ ~KwargsPositive) =>
       pc = "new_raise" /\ metrics_new = None /\ score = None
  /\ metrics_new # None =>
       /\ Positive(metrics_new[1].distance)
       /\ Positive(metrics_new[1].moving_time)
       /\ Positive(metrics_new[1].elapsed_time)
  /\ score # None =>
       Positive(workout.metrics.distance) /\ Positive(workout.metrics.moving_time)

\* construction with distance = 0 and positive durations has failed
C24_Witness ==
  /\ mode = "new" /\ pc = "new_raise"
  /\ kwargs.distance = RatZero
  /\ Positive(kwargs.moving_time) /\ Positive(kwargs.elapsed_time)
  /\ metrics_new = None

----------------------------------------------------------------------------
(* Relations between calls of calculate_ctl_atl_tsb.  The state holds one   *)
(* call carried out step by step; the calls it is compared with are         *)
(* computed by calculate_ctl_atl_tsb as a whole.                            *)

CtlReturned == mode = "ctl" /\ pc = "ctl_ret"
DistinctDates == Cardinality(InputDates) = Len(tss_history)

\* C25: when the dates of tss_history are pairwise distinct, the call on any
\* permutation of tss_history returns the same list, record for record.
C25_OrderIndependent ==
  (CtlReturned /\ DistinctDates) =>
    \A p \in Orderings(tss_history) :
      calculate_ctl_atl_tsb(p, initial_ctl, initial_atl) = results

\* the call has returned the six records of the days 0 .. 5 for the history
\* day 0: 50, day 1: 0, day 5: 80 given latest date first
C25_Witness ==
  /\ CtlReturned
  /\ tss_history = <<Scenario[3], Scenario[1], Scenario[2]>>
  /\ Len(results) = 6
  /\ results = calculate_ctl_atl_tsb(Scenario, initial_ctl, initial_atl)

\* the entries of tss_history dated before day d, and those dated on or after it
EarlierPart(d) == LET Before(e) == e[1] < d IN SelectSeq(tss_history, Before)
LaterPart(d) == LET FromDay(e) == e[1] >= d IN SelectSeq(tss_history, FromDay)
\* the records of the returned list dated on or after day d
RecordsFrom(d) == LET FromDay(r) == r.date >= d IN SelectSeq(results, FromDay)
\* the days at which tss_history splits into two non-empty parts
SplitDays == {d \in InputDates : \E e \in InputDates : e < d}
\* the later part begins on the day after the earlier part ends
Adjacent(d) == d - 1 \in InputDates

\* the call on the later part, seeded with the last averages of the call on
\* the earlier part
Continued(d) ==
  LET first == calculate_ctl_atl_tsb(EarlierPart(d), RatZero, RatZero)
  IN calculate_ctl_atl_tsb(LaterPart(d), first[Len(first)].ctl, first[Len(first)].atl)

\* C26 as stated: for every split of tss_history by date into a non-empty
\* earlier part A and a non-empty later part B, the call on B seeded with the
\* last ctl and atl of the call on A returns the records of the zero-seeded
\* call on A + B dated on or after the earliest date of B.
C26_Continuation_Original ==
  (CtlReturned /\ ZeroSeeds) =>
    \A d \in SplitDays : Continued(d) = RecordsFrom(d)

\* C26 amended: the same for every split in which the earliest date of B is
\* the day after the latest date of A.
C26_Continuation ==
  (CtlReturned /\ ZeroSeeds) =>
    \A d \in SplitDays : Adjacent(d) => Continued(d) = RecordsFrom(d)

\* the history day 0: 50, day 1: 0, day 5: 80 has been walked with zero seeds;
\* its split at day 1 continues into the five records of the days 1 .. 5
C26_Witness ==
  /\ CtlReturned /\ ZeroSeeds
  /\ tss_history = Scenario
  /\ 1 \in SplitDays /\ Adjacent(1)
  /\ Len(RecordsFrom(1)) = 5
  /\ Continued(1) = RecordsFrom(1)
  /\ results[1].ctl # RatZero

\* C27: get_current_training_load keys the workouts by calendar date; for a
\* day with several workouts the day's score is the score of the one that
\* comes last in the workout list, whatever their times of day.
C27_LastWorkoutOfDay ==
  (mode = "gc" /\ pc = "gc_ret") =>
    \A k \in DOMAIN results :
      LET on == {j \in DOMAIN workouts : DateOf(workouts[j].date) = results[k].date}
      IN on # {} =>
           results[k].tss =
             calculate_workout_tss(workouts[CHOOSE j \in on : \A i \in on : i <= j],
                                   threshold_pace_mps, threshold_heartrate,
                                   self_threshold_pace_mps)

\* two workouts of day 0 with different scores, the one later in the day first
\* in the list: the day's score is the score of the second
C27_Witness ==
  /\ mode = "gc" /\ pc = "gc_ret"
  /\ Len(workouts) = 2
  /\ DateOf(workouts[1].date) = 0 /\ DateOf(workouts[2].date) = 0
  /\ workouts[1].date > workouts[2].date
  /\ Len(results) = 1
  /\ results[1].tss = score[1]
  /\ results[1].tss #
       calculate_workout_tss(workouts[1], threshold_pace_mps, threshold_heartrate,
                             self_threshold_pace_mps)

NotNegative(v) == RatLe(RatZero, v)
\* the seeds and the input scores
SeedsAndScores ==
  {initial_ctl, initial_atl} \cup {tss_history[j][2] : j \in DOMAIN tss_history}
LargestInput == CHOOSE v \in SeedsAndScores : \A u \in SeedsAndScores : RatLe(u, v)

\* C28: when every input score and both seeds are >= 0, every record has
\* 0 <= ctl, 0 <= atl, and ctl and atl at most the largest of the two seeds
\* and the input scores.
C28_AveragesBounded ==
  (\A v \in SeedsAndScores : NotNegative(v)) =>
    \A k \in DOMAIN results :
      /\ NotNegative(results[k].ctl) /\ RatLe(results[k].ctl, LargestInput)
      /\ NotNegative(results[k].atl) /\ RatLe(results[k].atl, LargestInput)

\* a call seeded with ctl 30 and atl 40 has returned a record with ctl and atl
\* above the seeds and below the largest input
C28_Witness ==
  /\ CtlReturned
  /\ initial_ctl = RatOfInt(30) /\ initial_atl = RatOfInt(40)
  /\ \E k \in DOMAIN results :
       /\ RatLt(RatOfInt(30), results[k].ctl) /\ RatLt(results[k].ctl, LargestInput)
       /\ RatLt(RatOfInt(40), results[k].atl) /\ RatLt(results[k].atl, LargestInput)

\* C30: for every split of tss_history in which the earliest date of B is the
\* day after the latest date of A, the records of the call on A followed by
\* the records of the call on B seeded with the last ctl and atl of A are the
\* list of the zero-seeded call on A + B.
C30_AdjacentWindows ==
  (CtlReturned /\ ZeroSeeds) =>
    \A d \in SplitDays :
      Adjacent(d) =>
        calculate_ctl_atl_tsb(EarlierPart(d), RatZero, RatZero) \o Continued(d) = results

\* the two-day history day 0: 50, day 1: 80 has been walked with zero seeds
\* and splits into two one-day windows
C30_Witness ==
  /\ CtlReturned /\ ZeroSeeds
  /\ tss_history = <<<<0, RatOfInt(50)>>, <<1, RatOfInt(80)>>>>
  /\ SplitDays = {1} /\ Adjacent(1)
  /\ Len(calculate_ctl_atl_tsb(EarlierPart(1), RatZero, RatZero)) = 1
  /\ Len(Continued(1)) = 1
  /\ Len(results) = 2

----------------------------------------------------------------------------
(* Termination of the while loop of calculate_ctl_atl_tsb.                 *)

\* one iteration: the date advances by one day and one record is appended
OneDayOneRecord ==
  (pc = "ctl_loop" /\ pc' = "ctl_loop") =>
    /\ current_date' = current_date + 1
    /\ Len(results') = Len(results) + 1

\* C29: for every non-empty input the loop starts at the earliest date,
\* advances by one day and emits one record per iteration, and returns after
\* (latest date - earliest date) + 1 iterations.
C29_LoopTerminates ==
  /\ [][OneDayOneRecord]_vars
  /\ [](pc = "ctl_loop" /\ results = <<>> => current_date = EarliestDate)
  /\ (pc = "ctl_loop") ~>
       (pc = "ctl_ret" /\ tss_history # <<>>
          /\ Len(results) = LatestDate - EarliestDate + 1)

\* the loop has returned after six iterations for the dates 0, 1 and 5
C29_Witness ==
  /\ pc = "ctl_ret"
  /\ InputDates = {0, 1, 5}
  /\ current_date = 6
  /\ Len(results) = 6

----------------------------------------------------------------------------
(* Concurrent calls on one shared calculator.                              *)

\* what caller p's two calls return when nothing else runs
AloneResult(p) ==
  get_current_training_load(callers[p].workouts,
                            estimate_threshold_pace(callers[p].workouts), None,
                            self_threshold_pace_mps)

\* C23: no method writes self.threshold_pace_mps, and under every
\* interleaving of the steps of two callers of one calculator each caller is
\* returned what its calls return when run alone.
C23_NoSharedState ==
  /\ [][self_threshold_pace_mps' = self_threshold_pace_mps]_vars
  /\ [](\A p \in DOMAIN callers :
          callers[p].pc = "gc_ret" => callers[p].ret = AloneResult(p))

\* caller 1 has returned its record while caller 2, with other workouts, is
\* inside its while loop
C23_Witness ==
  /\ mode = "par"
  /\ callers[1].pc = "gc_ret" /\ callers[1].ret # None
  /\ callers[2].pc = "ctl_loop" /\ callers[2].results # <<>>
  /\ callers[1].workouts # callers[2].workouts

====
